---- MODULE Spec2Model ----
(***************************************************************************)
(* Model of package cp (JackMordaunt/go-cp): Copier.Copy, copyFile and the *)
(* concurrent directory copy (walk, copyFiles, collectErrors).             *)
(*                                                                         *)
(* A path is a sequence of names (a clean path: no ".", "..", or empty     *)
(* component).  The filesystem is a map of regular files (content, mode)   *)
(* and a map of directories (mode); it follows the semantics of the OS     *)
(* filesystem that afero.Fs stands for.                                    *)
(***************************************************************************)
EXTENDS Integers, Sequences, FiniteSets, TLC

\* ------------------------------------------------------------- bounds ----
\* Longest file content, in bytes.
MaxLen == 1
\* Most regular files in the initial filesystem.
MaxFiles == 2

\* ---------------------------------------------------------- constants ----
\* copyFiles: "if c.parallel < 1 { c.parallel = 10 }"
DefaultParallel == 10

\* ------------------------------------------------------------- values ----
\* permission bits: 0644 and 0600
Modes == {420, 384}
\* modes of the directories a fixture starts with (0755)
FixtureDirModes == {493}

\* names in lexical order (readDirNames sorts the names of a directory)
NameOrder == <<"c", "d", "f", "t", "x", "y">>
Names == {NameOrder[i] : i \in 1..Len(NameOrder)}
Rank(n) == CHOOSE i \in 1..Len(NameOrder) : NameOrder[i] = n

\* regular files a fixture may start with
FixtureList ==
    << <<"f", "x">>, <<"f", "c", "x">>, <<"f", "c", "d", "y">>,
       <<"f", "c", "c", "d", "x">>, <<"f", "d">>, <<"t", "x">> >>
FixtureFiles == {FixtureList[i] : i \in 1..Len(FixtureList)}
\* The bytes of a fixture file name the file, so that a content tells where
\* it comes from: the file is 0..MaxLen bytes long.
Tag(p) == CHOOSE i \in 1..Len(FixtureList) : FixtureList[i] = p
ContentsOf(p) == {[i \in 1..n |-> Tag(p)] : n \in 0..MaxLen}

\* the (from, to) arguments of a Copy call
CopyArgs ==
    { <<(<<"f">>), (<<"t">>)>>,              \* lateral
      <<(<<"f", "c">>), (<<"f">>)>>,         \* into the parent
      <<(<<"f">>), (<<"f", "c">>)>>,         \* into a child
      <<(<<"f">>), (<<"f">>)>>,              \* from == to, a directory
      <<(<<"f", "x">>), (<<"f", "x">>)>>,    \* from == to, a file or nothing
      <<(<<"f", "x">>), (<<"t", "x">>)>>,    \* a single file
      <<(<<"t">>), (<<"f", "d">>)>> }        \* onto a file or nothing
\* Copier.Parallel as configured (0: unset)
ParallelValues == {0, 1, 2, 4, 32}
\* the Copy calls made on the one Copier value
Calls == {1, 2}

\* -------------------------------------------------------------- paths ----
\* path/filepath.Dir of a clean path
Dir(p) == IF Len(p) = 0 THEN p ELSE SubSeq(p, 1, Len(p) - 1)
\* proper and improper prefixes of p, the root (<<>>) excluded
Prefixes(p) == {SubSeq(p, 1, i) : i \in 1..Len(p)}
IsPrefix(a, p) == Len(a) <= Len(p) /\ SubSeq(p, 1, Len(a)) = a
\* path/filepath.Join of two clean paths
Join(a, b) == a \o b

\* strings.Replace(s, old, "", 1): delete the first occurrence of old in s
Occurs(s, old) ==
    {i \in 1..(Len(s) - Len(old) + 1) : SubSeq(s, i, i + Len(old) - 1) = old}
ReplaceFirst(s, old) ==
    IF Occurs(s, old) = {} THEN s
    ELSE LET i == CHOOSE j \in Occurs(s, old) : \A l \in Occurs(s, old) : j <= l
         IN  SubSeq(s, 1, i - 1) \o SubSeq(s, i + Len(old), Len(s))

\* (mutant) the destination keeps the source root: filepath.Join(to, path)
ToPathKeepsFrom(from, to, path) == Join(to, path)

\* walker: toPath := filepath.Join(to, strings.Replace(path, from, "", 1))
ToPath(from, to, path) == Join(to, ReplaceFirst(path, from))

\* --------------------------------------------------------- filesystem ----
\* A filesystem state is a record [files, dirs]: files maps the paths of the
\* regular files to [content, mode], dirs maps the directories to their mode.
IsFile(fs, p) == p \in DOMAIN fs.files
IsDir(fs, p) == p \in DOMAIN fs.dirs
Exists(fs, p) == IsFile(fs, p) \/ IsDir(fs, p)

\* extend or override a function at one point
Put(f, k, v) == [x \in DOMAIN f \cup {k} |-> IF x = k THEN v ELSE f[x]]

\* Fs.Stat: the error, or the FileInfo (IsDir, Mode)
Stat(fs, p) ==
    IF IsFile(fs, p) THEN [err |-> FALSE, isDir |-> FALSE, mode |-> fs.files[p].mode]
    ELSE IF IsDir(fs, p) THEN [err |-> FALSE, isDir |-> TRUE, mode |-> fs.dirs[p]]
    ELSE [err |-> TRUE, isDir |-> FALSE, mode |-> 0]

\* Fs.MkdirAll(p, mode): fails when a component of p is a regular file, else
\* creates every missing directory of p with the mode
MkdirAllFails(fs, p) == \E q \in Prefixes(p) : IsFile(fs, q)
MkdirAll(fs, p, mode) ==
    [fs EXCEPT !.dirs = [q \in DOMAIN fs.dirs \cup Prefixes(p) |->
                            IF q \in DOMAIN fs.dirs THEN fs.dirs[q] ELSE mode]]

\* Fs.Open(p) for reading fails on a missing or an unreadable path
OpenFails(fs, denied, p) == ~Exists(fs, p) \/ p \in denied

\* Fs.OpenFile(p, os.O_CREATE|os.O_RDWR, mode): creates an empty file with
\* the mode when there is none, and leaves an existing file as it is
OpenFileFails(fs, denied, p) ==
    \/ IsDir(fs, p)
    \/ ~IsDir(fs, Dir(p))
    \/ p \in denied
OpenFileCreate(fs, p, mode) ==
    IF IsFile(fs, p) THEN fs
    ELSE [fs EXCEPT !.files = Put(fs.files, p, [content |-> <<>>, mode |-> mode])]

\* io.Copy(toFile, fromFile): both handles are at offset 0; the bytes of the
\* source overwrite the start of the destination, what lies beyond them stays
Overwrite(old, new) ==
    IF Len(new) >= Len(old) THEN new
    ELSE new \o SubSeq(old, Len(new) + 1, Len(old))
IoCopy(fs, from, to) ==
    [fs EXCEPT !.files[to].content = Overwrite(@, fs.files[from].content)]

\* readDirNames: the names in a directory, sorted
RECURSIVE SortNames(_)
SortNames(S) ==
    IF S = {} THEN <<>>
    ELSE LET n == CHOOSE x \in S : \A y \in S : Rank(x) <= Rank(y)
         IN  <<n>> \o SortNames(S \ {n})
ReadDirNames(fs, d) ==
    SortNames({n \in Names : Exists(fs, Join(d, <<n>>))})

\* ------------------------------------------------------------- errors ----
\* an error value: what failed and the path the message names
Err(kind, path) == [kind |-> kind, path |-> path]
\* what Copy returns: nil, one error, or Failures{list}
NoResult == [kind |-> "none", path |-> <<>>, list |-> <<>>]
Nil == [kind |-> "nil", path |-> <<>>, list |-> <<>>]
Single(e) == [kind |-> e.kind, path |-> e.path, list |-> <<>>]
Failures(list) == [kind |-> "Failures", path |-> <<>>, list |-> list]

\* ----------------------------------------------------------- copyFile ----
\* A transfer in progress: where copyFile stands, its arguments, and the
\* mode read from the source.
NoTransfer == [pc |-> "none", From |-> <<>>, To |-> <<>>, mode |-> 0]
NewTransfer(from, to) == [pc |-> "open", From |-> from, To |-> to, mode |-> 0]
TransferEnded(x) == x.pc \in {"ok", "errOpen", "errMkdir", "errCreate"}
TransferRunning(x) == x.pc \in {"open", "mkdir", "create", "copy"}
\* the error copyFile returns
TransferErr(x) ==
    CASE x.pc = "errOpen" -> Err("opening", x.From)
      [] x.pc = "errMkdir" -> Err("preparing directories", x.To)
      [] x.pc = "errCreate" -> Err("creating", x.To)

\* One filesystem call of copyFile: the transfer and the filesystem after it.
CopyFileStep(x, f, den) ==
    CASE x.pc = "open" ->
           \* fs.Open(from); fromFile.Stat()
           IF OpenFails(f, den, x.From)
           THEN [x |-> [x EXCEPT !.pc = "errOpen"], fs |-> f, op |-> "Open"]
           ELSE [x |-> [x EXCEPT !.pc = "mkdir", !.mode = Stat(f, x.From).mode],
                 fs |-> f, op |-> "Open"]
      [] x.pc = "mkdir" ->
           \* fs.MkdirAll(filepath.Dir(to), fromFi.Mode())
           IF MkdirAllFails(f, Dir(x.To))
           THEN [x |-> [x EXCEPT !.pc = "errMkdir"], fs |-> f, op |-> "MkdirAll"]
           ELSE [x |-> [x EXCEPT !.pc = "create"],
                 fs |-> MkdirAll(f, Dir(x.To), x.mode), op |-> "MkdirAll"]
      [] x.pc = "create" ->
           \* fs.OpenFile(to, os.O_CREATE|os.O_RDWR, fromFi.Mode())
           IF OpenFileFails(f, den, x.To)
           THEN [x |-> [x EXCEPT !.pc = "errCreate"], fs |-> f, op |-> "OpenFile"]
           ELSE [x |-> [x EXCEPT !.pc = "copy"],
                 fs |-> OpenFileCreate(f, x.To, x.mode), op |-> "OpenFile"]
      [] x.pc = "copy" ->
           \* io.Copy(toFile, fromFile)
           [x |-> [x EXCEPT !.pc = "ok"], fs |-> IoCopy(f, x.From, x.To),
            op |-> "io.Copy"]

\* -------------------------------------------------------------- state ----
VARIABLES
    fs,        \* the filesystem
    denied,    \* the paths that cannot be opened (permission denied)
    copier,    \* the Copier value: Clobber, Parallel, seen (0: nil, else a map)
    seenMaps,  \* the sync.Map values: seenMaps[k] is the one call k allocated
    copy,      \* per call: Copier.Copy and, in it, collectErrors
    cp,        \* per call: the private copier value and its two channels
    walker,    \* per call: the goroutine running copier.walk
    workers,   \* per call: the goroutines started by copier.copyFiles
    hist,      \* per call: what the call has done so far
    fs0,       \* the filesystem before the first call
    panicked   \* a goroutine sent on a closed channel

vars == <<fs, denied, copier, seenMaps, copy, cp, walker, workers, hist, fs0,
          panicked>>

\* Copier.Copy before it is called, with the arguments it will be called with
NewCopy(pc, a) ==
    [pc |-> pc, from |-> a[1], to |-> a[2], mode |-> 0, isDir |-> FALSE,
     x |-> NoTransfer, errs |-> <<>>, result |-> NoResult]
\* the private copier before Copier.copy builds it
NoCopier ==
    [parallel |-> 0, seen |-> 0, workClosed |-> FALSE, failClosed |-> FALSE,
     copyFiles |-> "off"]
NoWalker == [pc |-> "off", stack |-> <<>>, job |-> NoTransfer, err |-> FALSE]
NewHist ==
    [ops |-> {}, claimed |-> <<>>, received |-> <<>>, transfers |-> {},
     ended |-> 0, after |-> {}, seen0 |-> {}]

\* the filesystems a run may start from: at most MaxFiles regular files with
\* the modes given, and the directories that hold them
DirsOf(S) == {<<>>} \cup UNION {Prefixes(Dir(p)) : p \in S}
FilesOf(S, modes) ==
    {v \in [S -> [content : UNION {ContentsOf(p) : p \in S}, mode : modes]] :
        \A p \in S : v[p].content \in ContentsOf(p)}
Fixtures(modes) ==
    UNION { { [files |-> v, dirs |-> [d \in DirsOf(S) |-> m]] :
                v \in FilesOf(S, modes), m \in FixtureDirModes } :
            S \in {T \in SUBSET FixtureFiles : Cardinality(T) <= MaxFiles} }
\* the paths a fixture may make unreadable: the files of the source tree and
\* one of its directories
Deniable(f) ==
    {p \in DOMAIN f.files : p[1] = "f"} \cup ({<<"f", "c">>} \cap DOMAIN f.dirs)
DeniedSets(f) == {D \in SUBSET Deniable(f) : Cardinality(D) <= MaxFiles}

\* A run starts with a filesystem, a Copier value whose seen field is nil,
\* and the Copy calls that will be made on it (a call that is "absent" is
\* never made).
InitWith(fixtures, parallels, pcs, args) ==
    /\ fs \in fixtures
    /\ denied \in DeniedSets(fs)
    /\ copier \in [Clobber : BOOLEAN, Parallel : parallels, seen : {0}]
    /\ seenMaps = [k \in Calls |-> {}]
    /\ copy \in {[k \in Calls |-> NewCopy(pcs[k], a[k])] : a \in args}
    /\ cp = [k \in Calls |-> NoCopier]
    /\ walker = [k \in Calls |-> NoWalker]
    /\ workers = [k \in Calls |-> <<>>]
    /\ hist = [k \in Calls |-> NewHist]
    /\ fs0 = fs
    /\ panicked = FALSE

\* one Copy call on a fresh Copier
Init ==
    InitWith(Fixtures({420}), ParallelValues, <<"idle", "absent">>,
             {<<a, a>> : a \in CopyArgs})

\* A copy onto a destination that holds a file already, beside a file that
\* cannot be read: the fixtures are the trees over these three files.
ConflictFiles == {<<"f", "x">>, <<"f", "c", "x">>, <<"t", "x">>}
ConflictFixtures ==
    UNION { { [files |-> v, dirs |-> [d \in DirsOf(S) |-> m]] :
                v \in FilesOf(S, {420}), m \in FixtureDirModes } :
            S \in (SUBSET ConflictFiles) \ {{}} }
InitConflict ==
    InitWith(ConflictFixtures, {0, 2}, <<"idle", "absent">>,
             {<<a, a>> : a \in {<<(<<"f">>), (<<"t">>)>>,
                                <<(<<"f", "x">>), (<<"t", "x">>)>>}})

\* Two Copy calls on the one Copier value, in any interleaving: one after
\* the other, or at the same time.
MultiFixtures ==
    {f \in Fixtures({420}) :
        /\ DOMAIN f.files \subseteq {<<"f", "x">>, <<"f", "c", "x">>}
        /\ Cardinality(DOMAIN f.files) = 1}
MultiArgs == {<<(<<"f">>), (<<"t">>)>>, <<(<<"f", "x">>), (<<"t", "x">>)>>}
InitMulti ==
    InitWith(MultiFixtures, {0, 1}, <<"idle", "idle">>, MultiArgs \X MultiArgs)

\* One Copy call of a small tree or a single file, with no worker
\* (Parallel 1), one worker (Parallel 2) or nine (Parallel unset): the runs
\* whose termination is examined.
LiveFixtures ==
    {f \in Fixtures({420}) :
        DOMAIN f.files \subseteq {<<"f", "x">>, <<"f", "c", "x">>}}
InitLive ==
    InitWith(LiveFixtures, {0, 1, 2}, <<"idle", "absent">>,
             {<<a, a>> : a \in {<<(<<"f">>), (<<"t">>)>>,
                                <<(<<"f", "x">>), (<<"t", "x">>)>>}})

\* ------------------------------------------------------- Copier.Copy ----
Did(k, op) == [hist EXCEPT ![k].ops = @ \cup {op}]
Return(k, res) == [copy EXCEPT ![k].pc = "done", ![k].result = res]
Returned == {k \in Calls : copy[k].pc = "done"}

\* (mutant) the from == to shortcut is missing
SamePathNever(from, to) == FALSE
\* (mutant) the error of Stat(from) is dropped
StatErrorIgnored(fi) == FALSE

\* "if from == to"
SamePath(from, to) == from = to
\* "fromFi, err := c.Fs.Stat(from); if err != nil"
StatFailed(fi) == fi.err

\* Copy(from, to): "if from == to { return nil }", then Fs.Stat(from)
CopyBegin(k) ==
    /\ copy[k].pc = "idle"
    /\ ~panicked
    /\ LET c == copy[k]
           h == [hist EXCEPT ![k].after = Returned]
       IN  IF SamePath(c.from, c.to)
           THEN /\ copy' = [copy EXCEPT ![k] = [c EXCEPT !.pc = "done", !.result = Nil]]
                /\ hist' = h
           ELSE LET fi == Stat(fs, c.from)
                IN  /\ hist' = [h EXCEPT ![k].ops = @ \cup {"Stat"}]
                    /\ copy' = [copy EXCEPT ![k] =
                          IF StatFailed(fi)
                          THEN [c EXCEPT !.pc = "done",
                                         !.result = Single(Err("reading file metadata", c.from))]
                          ELSE [c EXCEPT !.pc = "statTo", !.mode = fi.mode,
                                         !.isDir = fi.isDir]]
    /\ UNCHANGED <<fs, denied, copier, seenMaps, cp, walker, workers, fs0, panicked>>

\* (mutant) the negation is missing: "if os.IsNotExist(err) && !c.Clobber"
ClobberAvoidedInverted(fi, clobber) == fi.err /\ ~clobber

\* "_, err = c.Fs.Stat(to); if !os.IsNotExist(err) && !c.Clobber"
ClobberAvoided(fi, clobber) == ~fi.err /\ ~clobber

\* Fs.Stat(to), the clobber guard, and "if !fromFi.IsDir()"
CopyStatTo(k) ==
    /\ copy[k].pc = "statTo"
    /\ ~panicked
    /\ hist' = Did(k, "Stat")
    /\ copy' = [copy EXCEPT ![k] =
          IF ClobberAvoided(Stat(fs, copy[k].to), copier.Clobber)
          THEN [@ EXCEPT !.pc = "done",
                         !.result = Single(Err("ErrClobberAvoided", copy[k].to))]
          ELSE IF ~copy[k].isDir
          THEN [@ EXCEPT !.pc = "copyFile", !.x = NewTransfer(copy[k].from, copy[k].to)]
          ELSE [@ EXCEPT !.pc = "mkdir"]]
    /\ UNCHANGED <<fs, denied, copier, seenMaps, cp, walker, workers, fs0, panicked>>

\* "return copyFile(c.Fs, from, to)": one filesystem call of it at a time
CopySingleFile(k) ==
    /\ copy[k].pc = "copyFile"
    /\ ~panicked
    /\ LET r == CopyFileStep(copy[k].x, fs, denied)
       IN  /\ fs' = r.fs
           /\ hist' = [hist EXCEPT ![k].ops = @ \cup {r.op},
                                   ![k].transfers =
                                       IF TransferEnded(r.x) THEN @ \cup {r.x} ELSE @,
                                   ![k].ended =
                                       IF TransferEnded(r.x) THEN @ + 1 ELSE @]
           /\ copy' = [copy EXCEPT ![k] =
                 IF r.x.pc = "ok" THEN [@ EXCEPT !.pc = "done", !.x = r.x, !.result = Nil]
                 ELSE IF TransferEnded(r.x)
                 THEN [@ EXCEPT !.pc = "done", !.x = r.x,
                                !.result = Single(TransferErr(r.x))]
                 ELSE [@ EXCEPT !.x = r.x]]
    /\ UNCHANGED <<denied, copier, seenMaps, cp, walker, workers, fs0, panicked>>

\* "if err := c.Fs.MkdirAll(to, fromFi.Mode()); err != nil { return err }"
CopyMkdir(k) ==
    /\ copy[k].pc = "mkdir"
    /\ ~panicked
    /\ hist' = Did(k, "MkdirAll")
    /\ IF MkdirAllFails(fs, copy[k].to)
       THEN /\ copy' = Return(k, Single(Err("mkdir", copy[k].to)))
            /\ fs' = fs
       ELSE /\ copy' = [copy EXCEPT ![k].pc = "seenLoad"]
            /\ fs' = MkdirAll(fs, copy[k].to, copy[k].mode)
    /\ UNCHANGED <<denied, copier, seenMaps, cp, walker, workers, fs0, panicked>>

\* "if c.seen == nil": the read of the Copier's field
CopySeenLoad(k) ==
    /\ copy[k].pc = "seenLoad"
    /\ ~panicked
    /\ copy' = [copy EXCEPT ![k].pc = IF copier.seen = 0 THEN "seenInit" ELSE "copy"]
    /\ UNCHANGED <<fs, denied, copier, seenMaps, cp, walker, workers, hist, fs0,
                   panicked>>

\* "c.seen = &sync.Map{}": the write of the Copier's field
CopySeenInit(k) ==
    /\ copy[k].pc = "seenInit"
    /\ ~panicked
    /\ copier' = [copier EXCEPT !.seen = k]
    /\ seenMaps' = [seenMaps EXCEPT ![k] = {}]
    /\ copy' = [copy EXCEPT ![k].pc = "copy"]
    /\ UNCHANGED <<fs, denied, cp, walker, workers, hist, fs0, panicked>>

\* ------------------------------------ Copier.copy, copier.copy: spawn ----
\* copyFiles: "if c.parallel < 1 { c.parallel = 10 }"
EffectiveParallel(parallel) == IF parallel < 1 THEN DefaultParallel ELSE parallel
\* (mutant) one worker more than the parallelism
NumWorkersOneMore(parallel) == parallel + 1
\* copyFiles: "for ii := 0; ii < c.parallel-1; ii++ { jobs.Add(1); go func() ..."
NumWorkers(parallel) == parallel - 1

Idle == [pc |-> "recv", x |-> NoTransfer]

\* Copier.copy builds the private copier (it reads c.Parallel and c.seen and
\* makes the two unbuffered channels); copier.copy starts walk and copyFiles
\* and goes on to collectErrors.  copyFiles starts its workers.
CopySpawn(k) ==
    /\ copy[k].pc = "copy"
    /\ ~panicked
    /\ LET par == EffectiveParallel(copier.Parallel)
       IN  /\ cp' = [cp EXCEPT ![k] =
                  [parallel |-> par, seen |-> copier.seen, workClosed |-> FALSE,
                   failClosed |-> FALSE, copyFiles |-> "wait"]]
           /\ workers' = [workers EXCEPT ![k] = [i \in 1..NumWorkers(par) |-> Idle]]
    /\ walker' = [walker EXCEPT ![k] =
          [pc |-> "walk", stack |-> << <<copy[k].from>> >>, job |-> NoTransfer,
           err |-> FALSE]]
    /\ copy' = [copy EXCEPT ![k].pc = "collect"]
    /\ hist' = [hist EXCEPT ![k].seen0 = seenMaps[copier.seen]]
    /\ UNCHANGED <<fs, denied, copier, seenMaps, fs0, panicked>>

\* ------------------------------------------------------- copier.walk ----
\* The walk (afero.Walk) is a stack of frames, each the paths of one
\* directory that are still to visit; the names of a directory are read when
\* the walk enters it.
RECURSIVE PopEmpty(_)
PopEmpty(stack) ==
    IF stack = <<>> THEN stack
    ELSE IF stack[Len(stack)] = <<>> THEN PopEmpty(SubSeq(stack, 1, Len(stack) - 1))
    ELSE stack
Top(stack) == stack[Len(stack)]
Rest(stack) == [stack EXCEPT ![Len(stack)] = Tail(@)]
Children(f, d) == LET ns == ReadDirNames(f, d)
                  IN  [i \in 1..Len(ns) |-> Join(d, <<ns[i]>>)]
\* where the walker goes on after a visit: Walk returns when nothing is left
Resume(w, stack) ==
    [w EXCEPT !.stack = PopEmpty(stack),
              !.pc = IF PopEmpty(stack) = <<>> THEN "close" ELSE "walk"]

\* "job{From: path, To: toPath}"
JobOf(x) == [From |-> x.From, To |-> x.To]

\* the walker function has this path already claimed: c.seen.Load(toPath)
SeenLoad(seen, toPath) == toPath \in seen

\* One visit of the walk: lstat, the walker function up to c.seen.Load, and
\* for a directory the read of its names.
WalkVisit(k) ==
    /\ walker[k].pc = "walk"
    /\ ~panicked
    /\ LET w == walker[k]
           path == Head(Top(w.stack))
           rest == Rest(w.stack)
           toPath == ToPath(copy[k].from, copy[k].to, path)
       IN  walker' = [walker EXCEPT ![k] =
             IF ~Exists(fs, path) THEN [w EXCEPT !.pc = "sendErr", !.err = TRUE]
             ELSE IF IsDir(fs, path)
             THEN IF path \in denied
                  THEN [w EXCEPT !.pc = "sendErr", !.err = TRUE]
                  ELSE Resume(w, Append(rest, Children(fs, path)))
             ELSE IF SeenLoad(seenMaps[cp[k].seen], toPath)
             THEN Resume(w, rest)
             ELSE [w EXCEPT !.pc = "store", !.stack = rest,
                            !.job = NewTransfer(path, toPath)]]
    /\ hist' = Did(k, "Walk")
    /\ UNCHANGED <<fs, denied, copier, seenMaps, copy, cp, workers, fs0, panicked>>

\* "c.seen.Store(toPath, struct{}{})"
WalkStore(k) ==
    /\ walker[k].pc = "store"
    /\ ~panicked
    /\ seenMaps' = [seenMaps EXCEPT ![cp[k].seen] = @ \cup {walker[k].job.To}]
    /\ walker' = [walker EXCEPT ![k].pc = "send"]
    /\ hist' = [hist EXCEPT ![k].claimed = Append(@, JobOf(walker[k].job))]
    /\ UNCHANGED <<fs, denied, copier, copy, cp, workers, fs0, panicked>>

\* the workers blocked in "for job := range c.work"
Receivers(k) == {i \in 1..Len(workers[k]) : workers[k][i].pc = "recv"}
\* Workers at the receive are alike: the lowest takes the next step.
Lowest(S) == CHOOSE i \in S : \A j \in S : i <= j

\* (mutant) every worker blocked in the receive gets the job
ReceiveByAll(ws, i, x) ==
    [j \in 1..Len(ws) |-> IF ws[j].pc = "recv"
                          THEN [pc |-> "copyFile", x |-> x] ELSE ws[j]]
\* "for job := range c.work": worker i receives the job and enters copyFile
Receive(ws, i, x) == [ws EXCEPT ![i] = [pc |-> "copyFile", x |-> x]]

\* "c.work <- job{From: path, To: toPath}": the channel is unbuffered, the
\* send and a worker's receive are one step
WalkSend(k) ==
    /\ walker[k].pc = "send"
    /\ ~panicked
    /\ Receivers(k) # {}
    /\ workers' = [workers EXCEPT ![k] =
                      Receive(@, Lowest(Receivers(k)), walker[k].job)]
    /\ walker' = [walker EXCEPT ![k] = Resume([@ EXCEPT !.job = NoTransfer], @.stack)]
    /\ hist' = [hist EXCEPT ![k].received = Append(@, JobOf(walker[k].job))]
    /\ UNCHANGED <<fs, denied, copier, seenMaps, copy, cp, fs0, panicked>>

\* a send on the failures channel: it panics when the channel is closed,
\* else collectErrors, which is in "for err := range c.failures", appends
SendFailure(k, e) ==
    IF cp[k].failClosed
    THEN /\ panicked' = TRUE
         /\ copy' = copy
    ELSE /\ copy[k].pc = "collect"
         /\ copy' = [copy EXCEPT ![k].errs = Append(@, e)]
         /\ panicked' = panicked

\* "c.failures <- errors.Wrap(err, "walking file system")"
WalkSendErr(k) ==
    /\ walker[k].pc = "sendErr"
    /\ ~panicked
    /\ SendFailure(k, Err("walking file system", copy[k].from))
    /\ walker' = [walker EXCEPT ![k].pc = "close"]
    /\ UNCHANGED <<fs, denied, copier, seenMaps, cp, workers, hist, fs0>>

\* "close(c.work)"
WalkClose(k) ==
    /\ walker[k].pc = "close"
    /\ ~panicked
    /\ cp' = [cp EXCEPT ![k].workClosed = TRUE]
    /\ walker' = [walker EXCEPT ![k].pc = "done"]
    /\ UNCHANGED <<fs, denied, copier, seenMaps, copy, workers, hist, fs0, panicked>>

\* -------------------------------------------------- copier.copyFiles ----
\* a worker's copyFile(c.fs, job.From, job.To): one filesystem call of it
WorkerCopyFile(k, i) ==
    /\ i \in 1..Len(workers[k])
    /\ workers[k][i].pc = "copyFile"
    /\ ~panicked
    /\ LET r == CopyFileStep(workers[k][i].x, fs, denied)
       IN  /\ fs' = r.fs
           /\ hist' = [hist EXCEPT ![k].ops = @ \cup {r.op},
                                   ![k].transfers =
                                       IF TransferEnded(r.x) THEN @ \cup {r.x} ELSE @,
                                   ![k].ended =
                                       IF TransferEnded(r.x) THEN @ + 1 ELSE @]
           /\ workers' = [workers EXCEPT ![k][i] =
                 IF r.x.pc = "ok" THEN Idle
                 ELSE IF TransferEnded(r.x) THEN [pc |-> "fail", x |-> r.x]
                 ELSE [pc |-> "copyFile", x |-> r.x]]
    /\ UNCHANGED <<denied, copier, seenMaps, copy, cp, walker, fs0, panicked>>

\* "c.failures <- err"
WorkerFail(k, i) ==
    /\ i \in 1..Len(workers[k])
    /\ workers[k][i].pc = "fail"
    /\ ~panicked
    /\ SendFailure(k, TransferErr(workers[k][i].x))
    /\ workers' = [workers EXCEPT ![k][i] = Idle]
    /\ UNCHANGED <<fs, denied, copier, seenMaps, cp, walker, hist, fs0>>

\* The range loops end when c.work is closed: the close releases every worker
\* blocked in the receive, and each goes on to "jobs.Done()".
WorkerExit(k) ==
    /\ cp[k].workClosed
    /\ ~panicked
    /\ Receivers(k) # {}
    /\ workers' = [workers EXCEPT ![k] =
                      [i \in 1..Len(@) |-> IF i \in Receivers(k)
                                           THEN [@[i] EXCEPT !.pc = "done"] ELSE @[i]]]
    /\ UNCHANGED <<fs, denied, copier, seenMaps, copy, cp, walker, hist, fs0, panicked>>

\* "jobs.Wait(); close(c.failures)"
CopyFilesClose(k) ==
    /\ cp[k].copyFiles = "wait"
    /\ ~panicked
    /\ \A i \in 1..Len(workers[k]) : workers[k][i].pc = "done"
    /\ cp' = [cp EXCEPT ![k].copyFiles = "done", ![k].failClosed = TRUE]
    /\ UNCHANGED <<fs, denied, copier, seenMaps, copy, walker, workers, hist, fs0,
                   panicked>>

\* ---------------------------------------------- copier.collectErrors ----
\* the range over c.failures ends when the channel is closed
CollectDone(k) ==
    /\ copy[k].pc = "collect"
    /\ ~panicked
    /\ cp[k].failClosed
    /\ copy' = Return(k, IF Len(copy[k].errs) > 0 THEN Failures(copy[k].errs) ELSE Nil)
    /\ UNCHANGED <<fs, denied, copier, seenMaps, cp, walker, workers, hist, fs0,
                   panicked>>

\* ------------------------------------------------------ specification ----
Next ==
    \E k \in Calls :
        \/ CopyBegin(k)
        \/ CopyStatTo(k)
        \/ CopySingleFile(k)
        \/ CopyMkdir(k)
        \/ CopySeenLoad(k)
        \/ CopySeenInit(k)
        \/ CopySpawn(k)
        \/ WalkVisit(k)
        \/ WalkStore(k)
        \/ WalkSend(k)
        \/ WalkSendErr(k)
        \/ WalkClose(k)
        \/ \E i \in 1..Len(workers[k]) : WorkerCopyFile(k, i)
        \/ \E i \in 1..Len(workers[k]) : WorkerFail(k, i)
        \/ WorkerExit(k)
        \/ CopyFilesClose(k)
        \/ CollectDone(k)

Spec == Init /\ [][Next]_vars
SpecConflict == InitConflict /\ [][Next]_vars
SpecMulti == InitMulti /\ [][Next]_vars
\* The Go scheduler runs every goroutine that can take a step.  Every step of
\* a call moves it forward and a call has finitely many steps, so a run that
\* is fair to Next stops only when no goroutine can move: weak fairness of
\* Next is then fairness to each goroutine.
SpecLive == InitLive /\ [][Next]_vars /\ WF_vars(Next)

\* --------------------------------------------------------- properties ----
\* the regular files of filesystem f below the directory root
Under(f, root) == {p \in DOMAIN f.files : IsPrefix(root, p) /\ p # root}
\* p relative to root
Rel(root, p) == SubSeq(p, Len(root) + 1, Len(p))
\* where a copy of from to `to` puts the file p of from
Dest(from, to, p) == Join(to, Rel(from, p))
\* neither path lies in the other
Lateral(a, b) == ~IsPrefix(a, b) /\ ~IsPrefix(b, a)
\* the contents of the regular files of f below root, by relative path
Tree(f, root) ==
    [r \in {Rel(root, p) : p \in Under(f, root)} |-> f.files[Join(root, r)].content]
\* no goroutine of call k was started
NothingStarted(k) ==
    /\ walker[k] = NoWalker
    /\ workers[k] = <<>>
    /\ cp[k] = NoCopier
Done(k) == copy[k].pc = "done"
\* how often e occurs in the sequence q
Count(q, e) == Cardinality({i \in DOMAIN q : q[i] = e})

\* C1: a lateral directory copy by a fresh Copier with the default parallelism,
\* into a destination that does not exist and with every file readable,
\* returns nil, and when it returns every regular file of `from` is at the
\* same relative path under `to` with the same content, and `to` holds no
\* other regular file.
C1_LateralCopyComplete ==
    LET c == copy[1]
    IN  ( /\ Done(1)
          /\ Lateral(c.from, c.to)
          /\ IsDir(fs0, c.from)
          /\ ~Exists(fs0, c.to)
          /\ denied = {}
          /\ copier.Parallel < 1 )
        => /\ c.result = Nil
           /\ \A p \in Under(fs0, c.from) :
                 /\ IsFile(fs, Dest(c.from, c.to, p))
                 /\ fs.files[Dest(c.from, c.to, p)].content = fs.files[p].content
                 /\ fs.files[p] = fs0.files[p]
           /\ \A q \in Under(fs, c.to) :
                 \E p \in Under(fs0, c.from) : q = Dest(c.from, c.to, p)
\* a lateral copy of two files, one of them in a subdirectory, has returned
C1_Witness ==
    LET c == copy[1]
    IN  /\ Done(1)
        /\ Lateral(c.from, c.to)
        /\ ~Exists(fs0, c.to)
        /\ denied = {}
        /\ copier.Parallel < 1
        /\ Cardinality(Under(fs0, c.from)) >= 2
        /\ \E p \in Under(fs0, c.from) : Len(Rel(c.from, p)) >= 2
        /\ \E p \in Under(fs0, c.from) : Len(fs0.files[p].content) >= 1
        /\ Cardinality(Under(fs, c.to)) >= 2

\* C2 (as stated): whenever `from` and `to` exist and Clobber is false, Copy
\* returns ErrClobberAvoided{to}, starts no walker or worker and leaves the
\* filesystem unchanged.
C2_ClobberGuardAsStated ==
    LET c == copy[1]
    IN  (Done(1) /\ Exists(fs0, c.from) /\ Exists(fs0, c.to) /\ ~copier.Clobber)
        => /\ c.result = Single(Err("ErrClobberAvoided", c.to))
           /\ NothingStarted(1)
           /\ fs = fs0
\* C2 (amended): whenever from != to, `from` and `to` exist and Clobber is
\* false, Copy returns ErrClobberAvoided{to}, starts no walker or worker and
\* leaves the filesystem unchanged.
C2_ClobberGuard ==
    LET c == copy[1]
    IN  ( /\ Done(1)
          /\ c.from # c.to
          /\ Exists(fs0, c.from)
          /\ Exists(fs0, c.to)
          /\ ~copier.Clobber )
        => /\ c.result = Single(Err("ErrClobberAvoided", c.to))
           /\ NothingStarted(1)
           /\ fs = fs0
\* the guard has refused a copy onto a directory that holds a file
C2_Witness ==
    LET c == copy[1]
    IN  /\ Done(1)
        /\ c.from # c.to
        /\ IsDir(fs0, c.from)
        /\ Under(fs0, c.from) # {}
        /\ Under(fs0, c.to) # {}
        /\ ~copier.Clobber
        /\ c.result.kind = "ErrClobberAvoided"

\* C3: a lateral directory copy with Clobber true onto an existing `to`
\* (default parallelism, every file readable) returns nil, and afterwards
\* every file of `from` is at `to` with the content of the source file.
C3_ClobberOverride ==
    LET c == copy[1]
    IN  ( /\ Done(1)
          /\ Lateral(c.from, c.to)
          /\ IsDir(fs0, c.from)
          /\ IsDir(fs0, c.to)
          /\ copier.Clobber
          /\ denied = {}
          /\ copier.Parallel < 1 )
        => /\ c.result = Nil
           /\ \A p \in Under(fs0, c.from) :
                 /\ IsFile(fs, Dest(c.from, c.to, p))
                 /\ fs.files[Dest(c.from, c.to, p)].content = fs0.files[p].content

\* the transfers of call k that failed and those that succeeded
FailedTransfers(k) == {x \in hist[k].transfers : x.pc # "ok"}
OkTransfers(k) == {x \in hist[k].transfers : x.pc = "ok"}
\* Copy returned Failures with exactly the errors of the failed transfers,
\* each once
ReturnsFailuresOf(k) ==
    /\ copy[k].result.kind = "Failures"
    /\ Len(copy[k].result.list) = Cardinality(FailedTransfers(k))
    /\ \A x \in FailedTransfers(k) : Count(copy[k].result.list, TransferErr(x)) = 1

\* C4: in a lateral directory copy whose walk succeeds and in which k > 0
\* transfers fail, Copy returns Failures with exactly those k errors, and the
\* files of the other transfers are at the destination with the content of
\* their source.
C4_FailSoft ==
    LET c == copy[1]
    IN  ( /\ Done(1)
          /\ Lateral(c.from, c.to)
          /\ walker[1].pc # "off"
          /\ ~walker[1].err
          /\ FailedTransfers(1) # {} )
        => /\ ReturnsFailuresOf(1)
           /\ \A x \in OkTransfers(1) :
                 /\ IsFile(fs, x.To)
                 /\ fs.files[x.To].content = fs0.files[x.From].content

\* the copy is one of a directory into its parent, nothing is unreadable and
\* no promoted file meets a file that is already there
IntoParent(c) ==
    /\ IsDir(fs0, c.from)
    /\ c.to = Dir(c.from)
    /\ c.from # c.to
    /\ copier.Clobber
    /\ denied = {}
    /\ copier.Parallel < 1
    /\ \A p \in Under(fs0, c.from) :
          \A q \in Prefixes(Dest(c.from, c.to, p)) : ~IsFile(fs0, q)
\* the files of the parent as they were, and each file of the child one
\* level up
Promoted(c) ==
    [q \in DOMAIN fs0.files \cup {Dest(c.from, c.to, p) : p \in Under(fs0, c.from)} |->
        IF q \in DOMAIN fs0.files THEN fs0.files[q].content
        ELSE fs0.files[CHOOSE p \in Under(fs0, c.from) :
                          q = Dest(c.from, c.to, p)].content]

\* C5: Copy(parent/child, parent) with Clobber true returns nil, the files
\* under parent are then the files that were there plus each file of child
\* one level up, and the walker emits no job for a file this copy created.
C5_IntoParent ==
    LET c == copy[1]
    IN  (Done(1) /\ IntoParent(c))
        => /\ c.result = Nil
           /\ [q \in DOMAIN fs.files |-> fs.files[q].content] = Promoted(c)
           /\ \A i \in DOMAIN hist[1].claimed :
                 hist[1].claimed[i].From \in DOMAIN fs0.files

\* C6: a lateral directory copy into a destination that does not exist, run
\* with Parallel 1, 4 or 32, returns nil and leaves at `to` the tree of
\* `from` (the same tree whatever the parallelism).
C6_ParallelIndependence ==
    LET c == copy[1]
    IN  ( /\ Done(1)
          /\ Lateral(c.from, c.to)
          /\ IsDir(fs0, c.from)
          /\ ~Exists(fs0, c.to)
          /\ denied = {}
          /\ copier.Parallel \in {1, 4, 32} )
        => /\ c.result = Nil
           /\ Tree(fs, c.to) = Tree(fs0, c.from)

\* C7: Copy(x, x) returns nil and changes nothing, whatever x is and however
\* the Copier is configured: no filesystem call is made, no goroutine is
\* started, and the seen set is not touched.
C7_NoOpCopy ==
    LET c == copy[1]
    IN  (Done(1) /\ c.from = c.to)
        => /\ c.result = Nil
           /\ hist[1].ops = {}
           /\ fs = fs0
           /\ NothingStarted(1)
           /\ copier.seen = 0
           /\ seenMaps = [k \in Calls |-> {}]
\* Copy(x, x) has returned for a directory x that holds files
C7_Witness ==
    LET c == copy[1]
    IN  /\ Done(1)
        /\ c.from = c.to
        /\ IsDir(fs0, c.from)
        /\ Under(fs0, c.from) # {}
        /\ copier.Clobber

\* C8: when from != to and `from` does not exist, Copy returns the error of
\* Stat(from), also when `to` exists and Clobber is false, and changes
\* nothing: `to` is not created, and no walker or worker is started.
C8_MissingSource ==
    LET c == copy[1]
    IN  (Done(1) /\ c.from # c.to /\ ~Exists(fs0, c.from))
        => /\ c.result = Single(Err("reading file metadata", c.from))
           /\ hist[1].ops = {"Stat"}
           /\ fs = fs0
           /\ NothingStarted(1)
\* Copy has returned for a missing source whose destination exists, with
\* Clobber false
C8_Witness ==
    LET c == copy[1]
    IN  /\ Done(1)
        /\ c.from # c.to
        /\ ~Exists(fs0, c.from)
        /\ Exists(fs0, c.to)
        /\ ~copier.Clobber

\* C9: in a sequence of Copy calls on one Copier value (default parallelism,
\* every file readable) every directory copy starts with an empty seen set,
\* so a call made after another has returned transfers every file of `from`.
C9_FreshSeenSet ==
    \A k \in Calls :
        ( /\ Done(k)
          /\ hist[k].after = Calls \ {k}
          /\ walker[k].pc # "off"
          /\ denied = {}
          /\ copier.Parallel < 1 )
        => /\ hist[k].seen0 = {}
           /\ \A p \in Under(fs0, copy[k].from) :
                 \E x \in hist[k].transfers : x.From = p

\* C10: when two directory Copy calls run at the same time on one Copier
\* value, no destination path is claimed and enqueued by both walkers.
C10_ClaimedByOneWalker ==
    (hist[1].after = {} /\ hist[2].after = {})
    => \A i \in DOMAIN hist[1].received : \A j \in DOMAIN hist[2].received :
          hist[1].received[i].To # hist[2].received[j].To

\* C11: whenever copyFile(fs, from, to) returns nil, the file at `to` has
\* exactly the content of `from` and its permission bits, whether or not
\* `to` existed before (here: the copyFile call of a single-file Copy, at the
\* moment it has returned).
C11_CopyFileResult ==
    LET c == copy[1]
    IN  (Done(1) /\ c.x.pc = "ok")
        => /\ IsFile(fs, c.to)
           /\ fs.files[c.to].content = fs.files[c.from].content
           /\ fs.files[c.to].mode = fs.files[c.from].mode

\* call k is a directory copy whose goroutines have been started
Started(k) == walker[k].pc # "off"
\* every worker of call k has left its range loop ("jobs.Done()")
AllExited(k) == \A i \in 1..Len(workers[k]) : workers[k][i].pc = "done"
\* the workers of call k that are inside copyFile
InFlight(k) == {i \in 1..Len(workers[k]) : workers[k][i].pc = "copyFile"}
\* a goroutine of call k stands at a send on the failures channel
SendingFailure(k) ==
    \/ walker[k].pc = "sendErr"
    \/ \E i \in 1..Len(workers[k]) : workers[k][i].pc = "fail"

\* C12: in a directory copy, for every effective parallelism >= 1, Copy
\* returns only after the failures channel is closed and drained; the
\* failures channel is closed only after every worker has exited; and the
\* workers exit only after the walker has closed the job channel and every
\* enqueued job has been received and its transfer has finished.
C12_ShutdownOrdering ==
    Started(1) =>
        /\ Done(1) => (cp[1].failClosed /\ ~SendingFailure(1))
        /\ cp[1].failClosed => AllExited(1)
        /\ \A i \in 1..Len(workers[1]) :
              workers[1][i].pc = "done" => cp[1].workClosed
        /\ cp[1].failClosed =>
              /\ cp[1].workClosed
              /\ walker[1].job = NoTransfer
              /\ InFlight(1) = {}
              /\ hist[1].ended = Len(hist[1].received)

\* C15: a directory copy starts exactly N workers, where N is Parallel when
\* Parallel >= 1 and 10 when Parallel is unset or non-positive; at least one
\* worker is always started.
C15_WorkerCount ==
    Started(1) =>
        /\ Len(workers[1]) = EffectiveParallel(copier.Parallel)
        /\ Len(workers[1]) >= 1

\* the error the walker of call k sends when afero.Walk fails
WalkErr(k) == Err("walking file system", copy[k].from)

\* C17: when the traversal fails, the walker emits no further job, sends the
\* wrapped walk error once on the failures channel and then closes the job
\* channel; Copy returns Failures holding that walk error exactly once,
\* together with the errors of the failed transfers of the jobs enqueued
\* before.
C17_WalkError ==
    walker[1].err =>
        /\ walker[1].pc \in {"sendErr", "close", "done"}
        /\ walker[1].pc \in {"close", "done"} =>
              Count(copy[1].errs, WalkErr(1)) = 1
        /\ walker[1].pc = "done" => cp[1].workClosed
        /\ Done(1) =>
              /\ copy[1].result.kind = "Failures"
              /\ Count(copy[1].result.list, WalkErr(1)) = 1
              /\ Len(copy[1].result.list) = 1 + Cardinality(FailedTransfers(1))
              /\ \A x \in FailedTransfers(1) :
                    Count(copy[1].result.list, TransferErr(x)) = 1

\* C18: once a destination path is in the seen set, the walker emits no job
\* for a later encounter of that path in the same copy, be it the computed
\* destination of the visited file or the visited file itself.
C18_ClaimedPathSkipped ==
    \A i, j \in DOMAIN hist[1].claimed :
        i < j => /\ hist[1].claimed[j].To # hist[1].claimed[i].To
                 /\ hist[1].claimed[j].From # hist[1].claimed[i].To

\* C19: no goroutine sends on the failures channel after copyFiles has
\* closed it, nor on the job channel after the walker has closed it: the
\* copy never panics.
C19_NoSendOnClosed ==
    /\ ~panicked
    /\ cp[1].workClosed => walker[1].pc = "done"

\* the elements of a sequence
Range(q) == {q[i] : i \in DOMAIN q}

C20_BoundedInFlight ==
    Started(1) =>
        /\ Cardinality(InFlight(1)) <= EffectiveParallel(copier.Parallel)
        /\ Len(hist[1].claimed) - Len(hist[1].received) \in {0, 1}
        /\ Len(hist[1].claimed) - Len(hist[1].received) = 1
              <=> walker[1].pc = "send"
\* two transfers are in progress while the walker holds a third job, claimed
\* and waiting for a worker
C20_Witness ==
    /\ Started(1)
    /\ Cardinality(InFlight(1)) >= 2
    /\ walker[1].pc = "send"
    /\ Len(hist[1].claimed) - Len(hist[1].received) = 1

\* C13: in every directory copy, for every parallelism setting and whether
\* the traversal succeeds or fails, the walker eventually closes the job
\* channel, and it closes it once, as its last step.
C13_WalkerCloses ==
    /\ Started(1) ~> cp[1].workClosed
    /\ [](cp[1].workClosed => walker[1].pc = "done")
    /\ [](walker[1].pc = "done" => cp[1].workClosed)

\* worker i of call 1 stands at its send on the failures channel
WorkerSending(i) == i \in DOMAIN workers[1] /\ workers[1][i].pc = "fail"
\* the collector has received what worker i sent
WorkerSent(i) ==
    /\ i \in DOMAIN workers[1]
    /\ workers[1][i].pc # "fail"
    /\ ~panicked

\* C14: a worker's send of a transfer error on the failures channel is always
\* eventually received by the collector, and under fair scheduling a
\* directory Copy always eventually returns.
C14_FailuresReceived ==
    /\ \A i \in 1..DefaultParallel : WorkerSending(i) ~> WorkerSent(i)
    /\ Started(1) ~> Done(1)

====
